---- MODULE Spec2Model ----
(***************************************************************************)
(* Model of ProviderScheduleViewer.tsx: the week bucketing done by         *)
(* processCSV, the holiday calendar (getHolidays / isHoliday), the         *)
(* component state (weeks, providers, currentWeekIndex), the asynchronous  *)
(* file reads started by handleFileUpload, the Previous / Next buttons and *)
(* the day cells of the rendered week.                                     *)
(*                                                                         *)
(* A JavaScript Date is modelled by its time value in whole hours since    *)
(* 1970-01-01T00:00Z.  The host's time zone is the offset tz (hours east   *)
(* of UTC): the local clock reads t + tz.  "Invalid Date" is InvalidDate.  *)
(* The offset is fixed during a behaviour: daylight-saving changes are not *)
(* modelled.                                                               *)
(***************************************************************************)
EXTENDS Integers, Sequences, FiniteSets, TLC

VARIABLES
    tz,                 \* host time zone, hours east of UTC
    now,                \* the wall clock: what new Date() returns
    mounted,            \* whether the useEffect of the first render has run
    weeks,              \* useState<WeekData[]>
    providers,          \* useState<string[]>
    currentWeekIndex,   \* useState<number>, 0-based as in the source
    uploads,            \* the processCSV calls, in the order the files were selected
    errorLog,           \* number of console.error calls
    holidayYear,        \* argument of the last getHolidays call
    holidays            \* result of the last getHolidays call

vars == <<tz, now, mounted, weeks, providers, currentWeekIndex, uploads,
          errorLog, holidayYear, holidays>>

viewVars == <<weeks, providers, currentWeekIndex>>

-----------------------------------------------------------------------------
(* Bounds of the model *)

MaxRows == 2        \* rows of a file in SpecBucket
MaxUploads == 2     \* files selected in one behaviour of Spec
MaxDays == 2        \* days the clock may advance
MinYear == 2000     \* years given to getHolidays
MaxYear == 2100

-----------------------------------------------------------------------------
(* The JavaScript Date operations the component uses *)

\* the time value of Invalid Date (NaN)
InvalidDate == -1

\* days from 1970-01-01 to the proleptic Gregorian date y-m-d (m in 1..12)
DaysFromCivil(y, m, d) ==
    LET yy  == IF m <= 2 THEN y - 1 ELSE y
        era == yy \div 400
        yoe == yy - era * 400
        mp  == (m + 9) % 12
        doy == (153 * mp + 2) \div 5 + d - 1
        doe == yoe * 365 + yoe \div 4 - yoe \div 100 + doy
    IN  era * 146097 + doe - 719468

\* the Gregorian date <<year, month 1..12, day>> of day number z
CivilFromDays(z) ==
    LET zz  == z + 719468
        era == zz \div 146097
        doe == zz - era * 146097
        yoe == (doe - doe \div 1460 + doe \div 36524 - doe \div 146096) \div 365
        doy == doe - (365 * yoe + yoe \div 4 - yoe \div 100)
        mp  == (5 * doy + 2) \div 153
        d   == doy - (153 * mp + 2) \div 5 + 1
        m   == IF mp < 10 THEN mp + 3 ELSE mp - 9
        y   == yoe + era * 400 + (IF m <= 2 THEN 1 ELSE 0)
    IN  <<y, m, d>>

\* the local calendar day (day number) on which the instant t falls
LocalDay(t) == (t + tz) \div 24

\* new Date(year, monthIndex, day): local midnight of that date
NewDate(year, monthIndex, day) == DaysFromCivil(year, monthIndex + 1, day) * 24 - tz

\* Date.prototype.getDay: 0 = Sunday .. 6 = Saturday, local calendar
getDay(t) == (LocalDay(t) + 4) % 7

\* Date.prototype.getFullYear / getMonth (0-based) / getDate, local calendar
getFullYear(t) == CivilFromDays(LocalDay(t))[1]
getMonth(t) == CivilFromDays(LocalDay(t))[2] - 1
getDate(t) == CivilFromDays(LocalDay(t))[3]

\* d.setHours(0, 0, 0, 0): local midnight of d's local day
setHours0(t) == LocalDay(t) * 24 - tz

\* d.setDate(d.getDate() + k): k local days later, same time of day
addDays(t, k) == t + 24 * k

\* d.toISOString().split('T')[0]: the UTC calendar date of d, as its day number
\* (the strings YYYY-MM-DD are in one-to-one correspondence with day numbers)
toISODate(t) == t \div 24

\* new Date('YYYY-MM-DD'): a date-only ISO string is midnight UTC of that date
parseISODate(key) == key * 24

\* d.toDateString(): the local calendar date of d
toDateString(t) == LocalDay(t)

-----------------------------------------------------------------------------
(* Holiday calendar *)

RECURSIVE walkToDay(_, _, _)
\* while (d.getDay() !== target) d.setDate(d.getDate() + step)
walkToDay(d, target, step) ==
    IF getDay(d) = target THEN d ELSE walkToDay(addDays(d, step), target, step)

\* getHolidays with Thanksgiving two weeks after the first Thursday: the third one
getHolidaysThirdThursday(year) ==
    << [name |-> "New Year's Day",   date |-> NewDate(year, 0, 1)],
       [name |-> "Memorial Day",     date |-> walkToDay(NewDate(year, 4, 31), 1, -1)],
       [name |-> "Independence Day", date |-> NewDate(year, 6, 4)],
       [name |-> "Labor Day",        date |-> walkToDay(NewDate(year, 8, 1), 1, 1)],
       [name |-> "Thanksgiving",     date |-> addDays(walkToDay(NewDate(year, 10, 1), 4, 1), 14)],
       [name |-> "Christmas",        date |-> NewDate(year, 11, 25)] >>

getHolidays(year) ==
    << [name |-> "New Year's Day",   date |-> NewDate(year, 0, 1)],
       [name |-> "Memorial Day",     date |-> walkToDay(NewDate(year, 4, 31), 1, -1)],
       [name |-> "Independence Day", date |-> NewDate(year, 6, 4)],
       [name |-> "Labor Day",        date |-> walkToDay(NewDate(year, 8, 1), 1, 1)],
       [name |-> "Thanksgiving",     date |-> addDays(walkToDay(NewDate(year, 10, 1), 4, 1), 21)],
       [name |-> "Christmas",        date |-> NewDate(year, 11, 25)] >>

\* holidays.find(...): the first holiday of the date's year with the same day and
\* month, or "none" (undefined)
isHoliday(date) ==
    LET hs == getHolidays(getFullYear(date))
        hit == { i \in 1..Len(hs) : /\ getDate(hs[i].date) = getDate(date)
                                    /\ getMonth(hs[i].date) = getMonth(date) }
    IN  IF hit = {} THEN "none"
        ELSE hs[CHOOSE i \in hit : \A j \in hit : i <= j].name

-----------------------------------------------------------------------------
(* processCSV: parsing and week bucketing *)

\* new Date(row['Appointment Date']).  A date string is modelled by its format
\* and the calendar date it names: a date-only ISO string ("2024-06-10") is
\* midnight UTC, any other parseable form ("6/10/2024") is local midnight, and
\* an unparseable string gives Invalid Date.
NewDateFromString(s) ==
    CASE s.fmt = "iso" -> s.day * 24
      [] s.fmt = "us"  -> s.day * 24 - tz
      [] OTHER         -> InvalidDate

\* results.data.map(row => ({date, provider, patientCount, ...row}))
parsedData(file) ==
    [ i \in 1..Len(file) |->
        [ date         |-> NewDateFromString(file[i].date),
          provider     |-> file[i].provider,
          patientCount |-> file[i].count ] ]

\* the Monday offset of both week computations
mondayOffset(day) == IF day = 0 THEN -6 ELSE 1 - day

\* the weekKey of one record: local midnight of its date, moved to the Monday
\* of its week, printed as the UTC date
weekKey(rowDate) ==
    LET date        == setHours0(rowDate)
        startOfWeek == addDays(date, mondayOffset(getDay(date)))
    IN  toISODate(startOfWeek)

\* groupingThrows if toISOString never raised
groupingNeverThrows(parsed) == FALSE

\* startOfWeek.toISOString() raises RangeError on an Invalid Date
groupingThrows(parsed) == \E i \in 1..Len(parsed) : parsed[i].date = InvalidDate

\* acc[weekKey].push(row), creating acc[weekKey] on first use; the object's
\* keys keep their insertion order
pushRow(acc, row) ==
    LET k == weekKey(row.date) IN
    IF \E j \in 1..Len(acc) : acc[j].key = k
    THEN [ j \in 1..Len(acc) |->
             IF acc[j].key = k
             THEN [acc[j] EXCEPT !.appointments = Append(@, row)]
             ELSE acc[j] ]
    ELSE Append(acc, [key |-> k, appointments |-> <<row>>])

RECURSIVE reduceRows(_, _, _)
reduceRows(acc, parsed, i) ==
    IF i > Len(parsed) THEN acc
    ELSE reduceRows(pushRow(acc, parsed[i]), parsed, i + 1)

\* parsedData.reduce(..., {})
groupedByWeek(parsed) == reduceRows(<<>>, parsed, 1)

RECURSIVE dedupe(_, _, _)
dedupe(acc, parsed, i) ==
    IF i > Len(parsed) THEN acc
    ELSE dedupe(IF \E j \in 1..Len(acc) : acc[j] = parsed[i].provider
                THEN acc ELSE Append(acc, parsed[i].provider),
                parsed, i + 1)

\* Array.from(new Set(parsedData.map(row => row.provider))).filter(Boolean)
uniqueProviders(parsed) ==
    SelectSeq(dedupe(<<>>, parsed, 1), LAMBDA p : p /= "")

\* the key of the current week: Monday of today's week at the present time of
\* day, printed as the UTC date
currentWeekKey(today) ==
    LET currentWeekStart == addDays(today, mondayOffset(getDay(today)))
    IN  toISODate(currentWeekStart)

\* appointments.reduce(...): the bucket's records by provider, in input order
byProvider(apps) ==
    [ p \in { apps[i].provider : i \in 1..Len(apps) } |->
        SelectSeq(apps, LAMBDA a : a.provider = p) ]

\* Object.entries(groupedByWeek).map(...)
weeklyData(grouped, today) ==
    [ j \in 1..Len(grouped) |->
        [ weekStart    |-> parseISODate(grouped[j].key),
          appointments |-> byProvider(grouped[j].appointments),
          isCurrent    |-> grouped[j].key = currentWeekKey(today) ] ]

RECURSIVE insertWeek(_, _)
insertWeek(sorted, w) ==
    IF sorted = <<>> THEN <<w>>
    ELSE IF w.weekStart - Head(sorted).weekStart < 0
         THEN <<w>> \o sorted
         ELSE <<Head(sorted)>> \o insertWeek(Tail(sorted), w)

RECURSIVE sortFrom(_, _, _)
sortFrom(sorted, ws, i) ==
    IF i > Len(ws) THEN sorted
    ELSE sortFrom(insertWeek(sorted, ws[i]), ws, i + 1)

\* sortedWeeks without the sort: the buckets in the order their keys were created
sortedWeeksUnsorted(ws) == ws

\* weeklyData.sort((a, b) => a.weekStart.getTime() - b.weekStart.getTime())
sortedWeeks(ws) == sortFrom(<<>>, ws, 1)

\* sortedWeeks.findIndex(week => week.isCurrent): 0-based, -1 when none
findCurrentIndex(ws) ==
    LET hit == { j \in 1..Len(ws) : ws[j].isCurrent }
    IN  IF hit = {} THEN 0 - 1
        ELSE (CHOOSE j \in hit : \A k \in hit : j <= k) - 1

\* what the complete callback computes from the text of a file read at `today`
bucket(file, today) ==
    LET parsed == parsedData(file)
        sorted == sortedWeeks(weeklyData(groupedByWeek(parsed), today))
    IN  [ weeks     |-> sorted,
          providers |-> uniqueProviders(parsed),
          index     |-> findCurrentIndex(sorted) ]

-----------------------------------------------------------------------------
(* Rendering *)

\* weeks[currentWeekIndex] || { weekStart: new Date(), appointments: {}, isCurrent: false }
currentWeek ==
    IF currentWeekIndex + 1 \in 1..Len(weeks)
    THEN weeks[currentWeekIndex + 1]
    ELSE [weekStart |-> now, appointments |-> <<>>, isCurrent |-> FALSE]

\* whether the displayed week is the fallback object
showsFallback == ~(currentWeekIndex + 1 \in 1..Len(weeks))

\* day cell i (0..6) of a provider's row: the calendar date the cell shows and
\* the patient count it shows
dayCell(week, provider, i) ==
    LET date == addDays(week.weekStart, i + 1)
        nextDay == addDays(date, 1)
        apps == IF provider \in DOMAIN week.appointments
                THEN week.appointments[provider] ELSE <<>>
        dayAppointments ==
            SelectSeq(apps, LAMBDA app : toDateString(app.date) = toDateString(nextDay))
    IN  [ date         |-> toDateString(date),
          patientCount |-> IF Len(dayAppointments) > 0
                           THEN dayAppointments[1].patientCount ELSE 0 ]

-----------------------------------------------------------------------------
(* Inputs *)

\* Monday 2024-06-10
BaseDay == DaysFromCivil(2024, 6, 10)

\* US Eastern standard time, UTC, central European summer time
TimeZones == {0 - 5, 0, 2}

\* instants at which the component may be opened: Mon 03:00Z, Mon 15:00Z,
\* Thu 01:00Z and Wed 22:00Z of the base week
StartTimes == { BaseDay * 24 + 3, BaseDay * 24 + 15,
                (BaseDay + 3) * 24 + 1, (BaseDay + 2) * 24 + 22 }

\* date strings: a Monday, the Sunday of its week and a Tuesday of the next
\* week, written in a local-time format or as ISO dates, and garbage
DateStrings ==
    { [fmt |-> "us",  day |-> BaseDay],
      [fmt |-> "us",  day |-> BaseDay + 6],
      [fmt |-> "us",  day |-> BaseDay + 8],
      [fmt |-> "iso", day |-> BaseDay],
      [fmt |-> "iso", day |-> BaseDay + 6],
      [fmt |-> "bad", day |-> 0] }

Rows == [date : DateStrings, provider : {"A", "B"}, count : {1, 2}]

\* the files of at most n rows
Files(n) == UNION { [1..k -> Rows] : k \in 0..n }

rowA == [date |-> [fmt |-> "us", day |-> BaseDay], provider |-> "A", count |-> 1]
rowB == [date |-> [fmt |-> "us", day |-> BaseDay + 8], provider |-> "B", count |-> 2]
rowBad == [date |-> [fmt |-> "bad", day |-> 0], provider |-> "A", count |-> 1]
rowNoProvider == [date |-> [fmt |-> "us", day |-> BaseDay + 6], provider |-> "", count |-> 2]

\* the files offered to the file input in Spec
SmallFiles ==
    { <<>>, <<rowA>>, <<rowB>>, <<rowA, rowB>>, <<rowB, rowA>>,
      <<rowBad>>, <<rowA, rowBad>>, <<rowNoProvider, rowA>> }

-----------------------------------------------------------------------------
(* The component *)

\* the state after construction (the useState initial values)
Init ==
    /\ tz \in TimeZones
    /\ now \in StartTimes
    /\ mounted = FALSE
    /\ weeks = <<>>
    /\ providers = <<>>
    /\ currentWeekIndex = 0
    /\ uploads = <<>>
    /\ errorLog = 0
    /\ holidayYear = 0
    /\ holidays = <<>>

\* the placeholder week of the mount effect
placeholderWeek(today) ==
    LET currentWeekStart == addDays(setHours0(today), mondayOffset(getDay(today)))
    IN  [weekStart |-> currentWeekStart, appointments |-> <<>>, isCurrent |-> TRUE]

\* useEffect(() => {...}, [])
Mount ==
    /\ ~mounted
    /\ mounted' = TRUE
    /\ weeks' = <<placeholderWeek(now)>>
    /\ UNCHANGED <<tz, now, providers, currentWeekIndex, uploads, errorLog,
                   holidayYear, holidays>>

\* handleFileUpload: a file is selected and processCSV starts reading it
handleFileUpload(file) ==
    /\ mounted
    /\ Len(uploads) < MaxUploads
    /\ uploads' = Append(uploads, [file |-> file, status |-> "reading"])
    /\ UNCHANGED <<tz, now, mounted, weeks, providers, currentWeekIndex, errorLog,
                   holidayYear, holidays>>

\* processCSV if it appended the new buckets and providers to the loaded ones
processCSVMerging(i) ==
    /\ i \in 1..Len(uploads)
    /\ uploads[i].status = "reading"
    /\ LET parsed == parsedData(uploads[i].file)
           b      == bucket(uploads[i].file, now)
       IN  IF groupingThrows(parsed)
           THEN /\ errorLog' = errorLog + 1
                /\ uploads' = [uploads EXCEPT ![i].status = "failed"]
                /\ UNCHANGED <<weeks, providers, currentWeekIndex>>
           ELSE /\ weeks' = weeks \o b.weeks
                /\ providers' = providers \o b.providers
                /\ currentWeekIndex' =
                       IF b.index /= 0 - 1 THEN b.index ELSE currentWeekIndex
                /\ uploads' = [uploads EXCEPT ![i].status = "done"]
                /\ UNCHANGED errorLog
    /\ UNCHANGED <<tz, now, mounted, holidayYear, holidays>>

\* processCSV if it set the providers before grouping the rows, so that a file
\* whose grouping throws still replaces the provider list
processCSVPartial(i) ==
    /\ i \in 1..Len(uploads)
    /\ uploads[i].status = "reading"
    /\ LET parsed == parsedData(uploads[i].file)
           b      == bucket(uploads[i].file, now)
       IN  IF groupingThrows(parsed)
           THEN /\ errorLog' = errorLog + 1
                /\ uploads' = [uploads EXCEPT ![i].status = "failed"]
                /\ providers' = uniqueProviders(parsed)
                /\ UNCHANGED <<weeks, currentWeekIndex>>
           ELSE /\ weeks' = b.weeks
                /\ providers' = b.providers
                /\ currentWeekIndex' =
                       IF b.index /= 0 - 1 THEN b.index ELSE currentWeekIndex
                /\ uploads' = [uploads EXCEPT ![i].status = "done"]
                /\ UNCHANGED errorLog
    /\ UNCHANGED <<tz, now, mounted, holidayYear, holidays>>

\* processCSV after the await: the read of upload i has completed, Papa.parse
\* runs the complete callback, and an exception lands in the catch block
processCSV(i) ==
    /\ i \in 1..Len(uploads)
    /\ uploads[i].status = "reading"
    /\ LET parsed == parsedData(uploads[i].file)
           b      == bucket(uploads[i].file, now)
       IN  IF groupingThrows(parsed)
           THEN /\ errorLog' = errorLog + 1
                /\ uploads' = [uploads EXCEPT ![i].status = "failed"]
                /\ UNCHANGED <<weeks, providers, currentWeekIndex>>
           ELSE /\ weeks' = b.weeks
                /\ providers' = b.providers
                /\ currentWeekIndex' =
                       IF b.index /= 0 - 1 THEN b.index ELSE currentWeekIndex
                /\ uploads' = [uploads EXCEPT ![i].status = "done"]
                /\ UNCHANGED errorLog
    /\ UNCHANGED <<tz, now, mounted, holidayYear, holidays>>

Max(a, b) == IF a >= b THEN a ELSE b
Min(a, b) == IF a <= b THEN a ELSE b

\* the Previous button: rendered when weeks is non-empty, disabled at index 0
Previous ==
    /\ Len(weeks) > 0
    /\ currentWeekIndex /= 0
    /\ currentWeekIndex' = Max(0, currentWeekIndex - 1)
    /\ UNCHANGED <<tz, now, mounted, weeks, providers, uploads, errorLog,
                   holidayYear, holidays>>

\* the Next button: rendered when weeks is non-empty, disabled at the last index
NextWeek ==
    /\ Len(weeks) > 0
    /\ currentWeekIndex /= Len(weeks) - 1
    /\ currentWeekIndex' = Min(Len(weeks) - 1, currentWeekIndex + 1)
    /\ UNCHANGED <<tz, now, mounted, weeks, providers, uploads, errorLog,
                   holidayYear, holidays>>

\* a day passes
Tick ==
    /\ now + 24 <= (BaseDay + MaxDays + 1) * 24
    /\ now' = now + 24
    /\ UNCHANGED <<tz, mounted, weeks, providers, currentWeekIndex, uploads,
                   errorLog, holidayYear, holidays>>

Next ==
    \/ Mount
    \/ \E file \in SmallFiles : handleFileUpload(file)
    \/ \E i \in 1..MaxUploads : processCSV(i)
    \/ Previous
    \/ NextWeek
    \/ Tick

Spec == Init /\ [][Next]_vars

-----------------------------------------------------------------------------
(* One upload of an arbitrary file of at most MaxRows rows, selected right   *)
(* after the component was mounted                                           *)

InitBucket ==
    /\ tz \in TimeZones
    /\ now \in StartTimes
    /\ mounted = TRUE
    /\ weeks = <<placeholderWeek(now)>>
    /\ providers = <<>>
    /\ currentWeekIndex = 0
    /\ \E file \in Files(MaxRows) : uploads = <<[file |-> file, status |-> "reading"]>>
    /\ errorLog = 0
    /\ holidayYear = 0
    /\ holidays = <<>>

NextBucket ==
    \/ \E i \in 1..MaxUploads : processCSV(i)
    \/ Previous
    \/ NextWeek

SpecBucket == InitBucket /\ [][NextBucket]_vars

-----------------------------------------------------------------------------
(* The holiday calendar applied to each year of MinYear..MaxYear *)

InitHolidays ==
    /\ tz \in TimeZones
    /\ now \in StartTimes
    /\ mounted = FALSE
    /\ weeks = <<>>
    /\ providers = <<>>
    /\ currentWeekIndex = 0
    /\ uploads = <<>>
    /\ errorLog = 0
    /\ holidayYear \in MinYear..MaxYear
    /\ holidays = <<>>

\* a call getHolidays(holidayYear)
CallGetHolidays ==
    /\ holidays = <<>>
    /\ holidays' = getHolidays(holidayYear)
    /\ UNCHANGED <<tz, now, mounted, weeks, providers, currentWeekIndex, uploads,
                   errorLog, holidayYear>>

NextHolidays == CallGetHolidays

SpecHolidays == InitHolidays /\ [][NextHolidays]_vars

-----------------------------------------------------------------------------
(* Helpers of the properties *)

Range(f) == { f[x] : x \in DOMAIN f }

\* the records held by a bucket, over all its providers
bucketRecords(week) ==
    UNION { Range(week.appointments[p]) : p \in DOMAIN week.appointments }

RECURSIVE sumLen(_, _)
sumLen(f, S) ==
    IF S = {} THEN 0
    ELSE LET x == CHOOSE y \in S : TRUE IN Len(f[x]) + sumLen(f, S \ {x})

\* the number of records held by a bucket
bucketSize(week) == sumLen(week.appointments, DOMAIN week.appointments)

RECURSIVE totalSize(_, _)
totalSize(ws, j) == IF j > Len(ws) THEN 0 ELSE bucketSize(ws[j]) + totalSize(ws, j + 1)

\* a bucket sequence without the isCurrent marks
unmarked(ws) ==
    [ j \in 1..Len(ws) |->
        [weekStart |-> ws[j].weekStart, appointments |-> ws[j].appointments] ]

\* the rows of a file whose date parses
validRows(file) == SelectSeq(file, LAMBDA r : r.date.fmt /= "bad")

hasBadRow(file) == \E k \in 1..Len(file) : file[k].date.fmt = "bad"

allDone == \A i \in 1..Len(uploads) : uploads[i].status /= "reading"

-----------------------------------------------------------------------------
(* C1 *)

\* C1: every bucket's weekStart is a Monday of the local calendar, and every
\* record of the bucket falls 0 to 6 calendar days after it.
C1_RecordsInMondayWeek ==
    \A j \in 1..Len(weeks) :
        /\ getDay(weeks[j].weekStart) = 1
        /\ \A r \in bucketRecords(weeks[j]) :
               LocalDay(r.date) - LocalDay(weeks[j].weekStart) \in 0..6

-----------------------------------------------------------------------------
(* C2 *)

\* C2: once the upload has completed, at most one bucket is marked current, and
\* a bucket is marked current exactly when its weekStart is the anchor of today
\* computed with the rule used for the records.
C2_CurrentIsTodaysWeek ==
    (Len(uploads) = 1 /\ uploads[1].status = "done") =>
        /\ Cardinality({ j \in 1..Len(weeks) : weeks[j].isCurrent }) <= 1
        /\ \A j \in 1..Len(weeks) :
               weeks[j].isCurrent <=> weeks[j].weekStart = parseISODate(weekKey(now))

-----------------------------------------------------------------------------
(* C3 *)

\* C3: getHolidays(year) gives Memorial Day as the last Monday in May, Labor
\* Day as the first Monday in September and Thanksgiving as the fourth Thursday
\* in November of that year; for 2024 these are May 27, Sep 2 and Nov 28.
C3_FloatingHolidays ==
    holidays /= <<>> =>
        LET memorial     == holidays[2]
            labor        == holidays[4]
            thanksgiving == holidays[5]
        IN  /\ memorial.name = "Memorial Day"
            /\ getFullYear(memorial.date) = holidayYear
            /\ getMonth(memorial.date) = 4
            /\ getDay(memorial.date) = 1
            /\ getMonth(addDays(memorial.date, 7)) = 5
            /\ labor.name = "Labor Day"
            /\ getFullYear(labor.date) = holidayYear
            /\ getMonth(labor.date) = 8
            /\ getDay(labor.date) = 1
            /\ getDate(labor.date) \in 1..7
            /\ thanksgiving.name = "Thanksgiving"
            /\ getFullYear(thanksgiving.date) = holidayYear
            /\ getMonth(thanksgiving.date) = 10
            /\ getDay(thanksgiving.date) = 4
            /\ getDate(thanksgiving.date) \in 22..28
            /\ holidayYear = 2024 =>
                   /\ getDate(memorial.date) = 27
                   /\ getDate(labor.date) = 2
                   /\ getDate(thanksgiving.date) = 28

\* the holidays of 2024 have been computed
C3_Witness == holidays /= <<>> /\ holidayYear = 2024

-----------------------------------------------------------------------------
(* C4 *)

\* the count the claim expects in cell i: that of the provider's first record
\* of the bucket dated weekStart + i, or 0
expectedCount(week, provider, i) ==
    LET apps == IF provider \in DOMAIN week.appointments
                THEN week.appointments[provider] ELSE <<>>
        same == SelectSeq(apps, LAMBDA app :
                    LocalDay(app.date) = LocalDay(week.weekStart) + i)
    IN  IF Len(same) > 0 THEN same[1].patientCount ELSE 0

\* C4: for the displayed bucket, every provider and every offset i in 0..6, the
\* day cell shows the date weekStart + i and the patient count of the provider's
\* first record of that date, or 0.
C4_DayCellShowsItsDay ==
    ~showsFallback =>
        \A p \in Range(providers) : \A i \in 0..6 :
            /\ dayCell(currentWeek, p, i).date = LocalDay(currentWeek.weekStart) + i
            /\ dayCell(currentWeek, p, i).patientCount = expectedCount(currentWeek, p, i)

-----------------------------------------------------------------------------
(* C5 *)

\* the view holds the records and providers of the file and nothing else
showsExactly(file, ws, ps) ==
    LET parsed == parsedData(file) IN
    /\ \A j \in 1..Len(ws) : bucketSize(ws[j]) >= 1
    /\ UNION { bucketRecords(ws[j]) : j \in 1..Len(ws) } = Range(parsed)
    /\ totalSize(ws, 1) = Len(parsed)
    /\ Range(ps) = { parsed[k].provider : k \in 1..Len(parsed) } \ {""}
    /\ Len(ps) = Cardinality(Range(ps))

\* C5: a step in which an upload completes successfully leaves exactly the
\* records and the providers of that upload's file in the view.
C5_UploadReplaces ==
    [][ \A i \in 1..Len(uploads) :
          (uploads[i].status = "reading" /\ uploads'[i].status = "done")
              => showsExactly(uploads[i].file, weeks', providers') ]_vars

\* a second, different file has been loaded over a first one
C5_Witness ==
    /\ Len(uploads) = 2
    /\ uploads[1].status = "done" /\ uploads[2].status = "done"
    /\ uploads[1].file = <<rowA, rowB>> /\ uploads[2].file = <<rowNoProvider, rowA>>
    /\ providers = <<"A">>
    /\ Len(weeks) = 1

-----------------------------------------------------------------------------
(* C6 *)

\* C6: once every selected file has been processed, the buckets and the
\* providers are those of the file selected last (two uploads that do not
\* overlap complete in the order of selection, so only overlapping uploads can
\* make this fail).
C6_LastSelectedWins ==
    (Len(uploads) >= 2 /\ \A i \in 1..Len(uploads) : uploads[i].status = "done") =>
        LET last == bucket(uploads[Len(uploads)].file, now)
        IN  /\ unmarked(weeks) = unmarked(last.weeks)
            /\ providers = last.providers

-----------------------------------------------------------------------------
(* C7 *)

\* C7: a step in which an upload fails logs one error and changes neither the
\* buckets, nor the providers, nor the current week index.
C7_FailedUploadChangesNothing ==
    [][ \A i \in 1..Len(uploads) :
          (uploads[i].status = "reading" /\ uploads'[i].status = "failed")
              => /\ viewVars' = viewVars
                 /\ errorLog' = errorLog + 1 ]_vars

\* an upload has failed after another file had been loaded
C7_Witness ==
    /\ Len(uploads) = 2
    /\ uploads[1].status = "done" /\ uploads[2].status = "failed"
    /\ uploads[2].file = <<rowA, rowBad>>
    /\ errorLog = 1
    /\ providers = <<"B">>

-----------------------------------------------------------------------------
(* C8 *)

\* C8: the buckets are in strictly ascending order of weekStart, so no two
\* buckets share a weekStart.
C8_StrictlyAscending ==
    \A j \in 1..Len(weeks), k \in 1..Len(weeks) :
        j < k => weeks[j].weekStart < weeks[k].weekStart

\* a file whose first row lies in a later week than its second row was loaded
C8_Witness ==
    /\ Len(uploads) = 1 /\ uploads[1].status = "done"
    /\ Len(uploads[1].file) = 2
    /\ uploads[1].file[1].date.day = BaseDay + 8
    /\ uploads[1].file[2].date.day = BaseDay
    /\ Len(weeks) = 2

-----------------------------------------------------------------------------
(* C9 *)

\* C9: an upload whose file has a row with an unparseable date completes as if
\* that row were absent: the rows with valid dates are bucketed and replace the
\* view.
C9_BadRowDropped ==
    (Len(uploads) = 1 /\ uploads[1].status /= "reading" /\ hasBadRow(uploads[1].file)) =>
        LET rest == bucket(validRows(uploads[1].file), now)
        IN  /\ uploads[1].status = "done"
            /\ weeks = rest.weeks
            /\ providers = rest.providers

\* C9 as amended: an upload whose file has a row with an unparseable date fails
\* as a whole: the error is logged once and the view stays what it was before
\* the upload (here the placeholder week of the mount, no providers, index 0).
C9_BadRowFailsUpload ==
    (Len(uploads) = 1 /\ uploads[1].status /= "reading" /\ hasBadRow(uploads[1].file)) =>
        /\ uploads[1].status = "failed"
        /\ errorLog = 1
        /\ weeks = <<placeholderWeek(now)>>
        /\ providers = <<>>
        /\ currentWeekIndex = 0

\* a file with one bad row and one valid row has been processed
C9_Witness ==
    /\ Len(uploads) = 1 /\ uploads[1].status /= "reading"
    /\ Len(uploads[1].file) = 2
    /\ uploads[1].file[1].date.fmt = "us"
    /\ uploads[1].file[2].date.fmt = "bad"

-----------------------------------------------------------------------------
(* C10 *)

\* C10: whenever the bucket sequence is non-empty, the current week index is
\* within it, so the displayed week is a real bucket and never the fallback.
C10_IndexInRange ==
    Len(weeks) > 0 =>
        /\ 0 <= currentWeekIndex
        /\ currentWeekIndex <= Len(weeks) - 1
        /\ ~showsFallback

====
